---------------------------- MODULE Spec2Model ----------------------------
(***************************************************************************)
(* A model of stomp-rs's incremental frame parser, src/frame_buffer.rs.    *)
(*                                                                         *)
(* A FrameBuffer is a record: the byte queue, the three fields of          *)
(* ParseState and the string pool.  Bytes are naturals 0..255, a Rust      *)
(* String is the sequence of its UTF-8 bytes, Option<T> is a sequence of   *)
(* length at most one (<<>> is None, <<x>> is Some(x)).  A panic ends the  *)
(* process: it is the return value "Panic" and no operation follows it.    *)
(* usize is taken to be 64 bits wide, so content_length + 1 cannot wrap.   *)
(***************************************************************************)
EXTENDS Naturals, Sequences, FiniteSets

VARIABLES
  fb,        \* the FrameBuffer under test
  last,      \* the last public call and what it returned
  pre,       \* the FrameBuffer as it was when the last call was made
  unpooled,  \* a FrameBuffer whose pool keeps nothing, driven alike
  input,     \* the whole byte sequence the transport will deliver
  tape,      \* the part of input not yet appended
  out        \* the transmissions emitted while input is delivered

vars == <<fb, last, pre, unpooled, input, tape, out>>

---------------------------------------------------------------------------
(* Bytes the parser tells apart, and the header codec's separator.         *)
LF    == 10
CR    == 13
NUL   == 0
COLON == 58

DEFAULT_STRING_POOL_SIZE     == 4
DEFAULT_STRING_POOL_MAX_SIZE == 32

(* Bounds of the model.                                                    *)
MaxBuf     == 2   \* append is offered while fewer bytes than this are queued
MaxHeaders == 1   \* append is offered while at most this many headers are held
MaxPieces  == 2   \* transmissions in a delivered input

None    == <<>>
Some(x) == <<x>>

NoPanic == "none"

---------------------------------------------------------------------------
(* std::str::from_utf8: whether a byte sequence is well-formed UTF-8.      *)
IsCont(b) == b >= 128 /\ b <= 191

RECURSIVE IsUtf8(_)
IsUtf8(bs) ==
  IF bs = <<>> THEN TRUE
  ELSE LET b == bs[1]
           n == Len(bs)
       IN  CASE b <= 127 -> IsUtf8(Tail(bs))
             [] b >= 194 /\ b <= 223 ->
                  n >= 2 /\ IsCont(bs[2]) /\ IsUtf8(SubSeq(bs, 3, n))
             [] b >= 224 /\ b <= 239 ->
                  /\ n >= 3 /\ IsCont(bs[2]) /\ IsCont(bs[3])
                  /\ (b = 224 => bs[2] >= 160)
                  /\ (b = 237 => bs[2] <= 159)
                  /\ IsUtf8(SubSeq(bs, 4, n))
             [] b >= 240 /\ b <= 244 ->
                  /\ n >= 4 /\ IsCont(bs[2]) /\ IsCont(bs[3]) /\ IsCont(bs[4])
                  /\ (b = 240 => bs[2] >= 144)
                  /\ (b = 244 => bs[2] <= 143)
                  /\ IsUtf8(SubSeq(bs, 5, n))
             [] OTHER -> FALSE

---------------------------------------------------------------------------
(* lifeguard's Pool<String>: a stack of released strings, each cleared     *)
(* (Recycleable::reset) when it is taken back, at most max of them.        *)
Pool_with_size_and_max(size, max) ==
  [values |-> [i \in 1..size |-> <<>>], max |-> max]

(* new_from(s).detach(): a pooled string, or a new one, with s pushed.     *)
Pool_new_from(pool, s) ==
  IF pool.values = <<>>
  THEN [pool |-> pool, val |-> s]
  ELSE [pool |-> [pool EXCEPT !.values = SubSeq(@, 1, Len(@) - 1)],
        val  |-> pool.values[Len(pool.values)] \o s]

(* attach(value), the guard dropped at once: the value goes back cleared.  *)
Pool_attach(pool, value) ==
  IF Len(pool.values) < pool.max
  THEN [pool EXCEPT !.values = Append(@, <<>>)]
  ELSE pool

---------------------------------------------------------------------------
(* The header codec and the header list (header.rs), at their interface.   *)
ContentLengthKey ==
  <<99, 111, 110, 116, 101, 110, 116, 45, 108, 101, 110, 103, 116, 104>>

IndexOf(bs, needle) ==
  IF \E i \in 1..Len(bs) : bs[i] = needle
  THEN CHOOSE i \in 1..Len(bs) :
         bs[i] = needle /\ \A j \in 1..(i - 1) : bs[j] # needle
  ELSE 0

(* HeaderCodec::decode: key and value around the first separator.          *)
HeaderCodec_decode(line) ==
  LET i == IndexOf(line, COLON)
  IN  IF i = 0 THEN None
      ELSE Some([key   |-> SubSeq(line, 1, i - 1),
                 value |-> SubSeq(line, i + 1, Len(line))])

IsDigit(b) == b >= 48 /\ b <= 57

RECURSIVE ParseDecimal(_)
ParseDecimal(bs) ==
  IF bs = <<>> THEN 0
  ELSE 10 * ParseDecimal(SubSeq(bs, 1, Len(bs) - 1)) + (bs[Len(bs)] - 48)

(* str::parse::<u32>: Some(n) for a non-empty run of digits.  Values of    *)
(* ten digits, the only ones that can leave u32, are beyond TLC's integers *)
(* and beyond every input of this model; they read as None here.           *)
ParseU32(bs) ==
  IF bs # <<>> /\ Len(bs) <= 9 /\ (\A i \in 1..Len(bs) : IsDigit(bs[i]))
  THEN Some(ParseDecimal(bs))
  ELSE None

(* HeaderList::get_content_length: the first Content-Length header.        *)
get_content_length(headers) ==
  LET idx == {i \in 1..Len(headers) : headers[i].key = ContentLengthKey}
  IN  IF idx = {} THEN None
      ELSE LET i == CHOOSE k \in idx : \A j \in idx : k <= j
           IN  ParseU32(headers[i].value)

---------------------------------------------------------------------------
(* FrameBuffer::with_capacity, with the sizes of the string pool.          *)
with_pool(size, max) ==
  [buffer      |-> <<>>,
   command     |-> None,
   headers     |-> <<>>,
   section     |-> "Command",
   string_pool |-> Pool_with_size_and_max(size, max)]

new == with_pool(DEFAULT_STRING_POOL_SIZE, DEFAULT_STRING_POOL_MAX_SIZE)

len(f) == Len(f.buffer)

reset_parse_state(f) == [f EXCEPT !.section = "Command"]

reset(f) == reset_parse_state([f EXCEPT !.buffer = <<>>])

(* Faulty variant: the bytes are pushed at the front of the queue.         *)
append_PushFront(f, bytes) == [f EXCEPT !.buffer = bytes \o @]

append(f, bytes) == [f EXCEPT !.buffer = @ \o bytes]

(* Option<u32>: the zero-based offset of the first needle in the queue.    *)
find_next(f, needle) ==
  LET i == IndexOf(f.buffer, needle)
  IN  IF i = 0 THEN None ELSE Some(i - 1)

(* pop_front n times; the queue running dry is a panic.                    *)
read_into_vec(f, n) ==
  IF n > Len(f.buffer)
  THEN [fb |-> [f EXCEPT !.buffer = <<>>], val |-> f.buffer,
        panic |-> "Attempted to read beyond the end of the buffer!"]
  ELSE [fb |-> [f EXCEPT !.buffer = SubSeq(@, n + 1, Len(@))],
        val |-> SubSeq(f.buffer, 1, n), panic |-> NoPanic]

read_into_string(f, n) ==
  LET r == read_into_vec(f, n)
  IN  IF r.panic # NoPanic THEN r
      ELSE IF ~IsUtf8(r.val)
      THEN [r EXCEPT !.panic = "Attempted to read a string that was not utf8."]
      ELSE LET p == Pool_new_from(r.fb.string_pool, r.val)
           IN  [fb |-> [r.fb EXCEPT !.string_pool = p.pool],
                val |-> p.val, panic |-> NoPanic]

(* trim_right_matches(['\r', '\n']) and truncate.                          *)
RECURSIVE chomp(_)
chomp(line) ==
  IF line # <<>> /\ line[Len(line)] \in {CR, LF}
  THEN chomp(SubSeq(line, 1, Len(line) - 1))
  ELSE line

(* Faulty variant: a partial command line is taken out of the queue.       *)
read_command_DrainsPartial(f) ==
  LET found == find_next(f, LF)
  IN  IF found = None
      THEN [fb |-> [f EXCEPT !.buffer = <<>>], res |-> [kind |-> "Incomplete"],
            panic |-> NoPanic]
      ELSE LET r       == read_into_string(f, found[1] + 1)
               command == chomp(r.val)
           IN  IF r.panic # NoPanic
               THEN [fb |-> r.fb, res |-> [kind |-> "Incomplete"], panic |-> r.panic]
               ELSE IF command = <<>>
               THEN [fb |-> [r.fb EXCEPT !.string_pool = Pool_attach(@, command)],
                     res |-> [kind |-> "HeartBeat"], panic |-> NoPanic]
               ELSE [fb |-> r.fb, res |-> [kind |-> "Command", command |-> command],
                     panic |-> NoPanic]

read_command(f) ==
  LET found == find_next(f, LF)
  IN  IF found = None
      THEN [fb |-> f, res |-> [kind |-> "Incomplete"], panic |-> NoPanic]
      ELSE LET r       == read_into_string(f, found[1] + 1)
               command == chomp(r.val)
           IN  IF r.panic # NoPanic
               THEN [fb |-> r.fb, res |-> [kind |-> "Incomplete"], panic |-> r.panic]
               ELSE IF command = <<>>
               THEN [fb |-> [r.fb EXCEPT !.string_pool = Pool_attach(@, command)],
                     res |-> [kind |-> "HeartBeat"], panic |-> NoPanic]
               ELSE [fb |-> r.fb, res |-> [kind |-> "Command", command |-> command],
                     panic |-> NoPanic]

(* Faulty variant: num_bytes is index, so the LF of the line stays queued. *)
read_header_KeepsLF(f) ==
  LET found == find_next(f, LF)
  IN  IF found = None
      THEN [fb |-> f, res |-> [kind |-> "Incomplete"], panic |-> NoPanic]
      ELSE LET r             == read_into_string(f, found[1])
               header_string == chomp(r.val)
               header        == HeaderCodec_decode(header_string)
               released      == [r.fb EXCEPT !.string_pool = Pool_attach(@, header_string)]
           IN  IF r.panic # NoPanic
               THEN [fb |-> r.fb, res |-> [kind |-> "Incomplete"], panic |-> r.panic]
               ELSE IF header_string = <<>>
               THEN [fb |-> released, res |-> [kind |-> "EndOfHeaders"], panic |-> NoPanic]
               ELSE IF header = None
               THEN [fb |-> r.fb, res |-> [kind |-> "Incomplete"],
                     panic |-> "Invalid header encountered."]
               ELSE [fb |-> released, res |-> [kind |-> "Header", header |-> header[1]],
                     panic |-> NoPanic]

read_header(f) ==
  LET found == find_next(f, LF)
  IN  IF found = None
      THEN [fb |-> f, res |-> [kind |-> "Incomplete"], panic |-> NoPanic]
      ELSE LET r             == read_into_string(f, found[1] + 1)
               header_string == chomp(r.val)
               header        == HeaderCodec_decode(header_string)
               released      == [r.fb EXCEPT !.string_pool = Pool_attach(@, header_string)]
           IN  IF r.panic # NoPanic
               THEN [fb |-> r.fb, res |-> [kind |-> "Incomplete"], panic |-> r.panic]
               ELSE IF header_string = <<>>
               THEN [fb |-> released, res |-> [kind |-> "EndOfHeaders"], panic |-> NoPanic]
               ELSE IF header = None
               THEN [fb |-> r.fb, res |-> [kind |-> "Incomplete"],
                     panic |-> "Invalid header encountered."]
               ELSE [fb |-> released, res |-> [kind |-> "Header", header |-> header[1]],
                     panic |-> NoPanic]

(* Faulty variant: the null octet is not counted in bytes_needed.          *)
(* Faulty variant: the bytes are taken without the length check.           *)
(* Variant that validates the terminator: a byte other than the null octet *)
(* at offset content_length stops the read.                                *)
read_body_by_content_length_ChecksNul(f, content_length) ==
  LET bytes_needed == content_length + 1
      r            == read_into_vec(f, bytes_needed)
  IN  IF Len(f.buffer) < bytes_needed \/ f.buffer[bytes_needed] # NUL
      THEN [fb |-> f, res |-> None, panic |-> NoPanic]
      ELSE [fb |-> r.fb, res |-> Some(SubSeq(r.val, 1, Len(r.val) - 1)),
            panic |-> r.panic]

read_body_by_content_length_NoCheck(f, content_length) ==
  LET bytes_needed == content_length + 1
      r            == read_into_vec(f, bytes_needed)
  IN  [fb |-> r.fb, res |-> Some(SubSeq(r.val, 1, Len(r.val) - 1)),
       panic |-> r.panic]

read_body_by_content_length_NoSentinel(f, content_length) ==
  LET bytes_needed == content_length
      r            == read_into_vec(f, bytes_needed)
  IN  IF Len(f.buffer) < bytes_needed
      THEN [fb |-> f, res |-> None, panic |-> NoPanic]
      ELSE [fb |-> r.fb, res |-> Some(SubSeq(r.val, 1, Len(r.val) - 1)),
            panic |-> r.panic]

read_body_by_content_length(f, content_length) ==
  LET bytes_needed == content_length + 1
      r            == read_into_vec(f, bytes_needed)
  IN  IF Len(f.buffer) < bytes_needed
      THEN [fb |-> f, res |-> None, panic |-> NoPanic]
      ELSE [fb |-> r.fb, res |-> Some(SubSeq(r.val, 1, Len(r.val) - 1)),
            panic |-> r.panic]

(* Faulty variant: num_bytes is index, so the null octet stays queued.     *)
read_body_by_null_octet_KeepsNul(f) ==
  LET found == find_next(f, NUL)
  IN  IF found = None
      THEN [fb |-> f, res |-> None, panic |-> NoPanic]
      ELSE LET r == read_into_vec(f, found[1])
           IN  [fb |-> r.fb, res |-> Some(SubSeq(r.val, 1, Len(r.val) - 1)),
                panic |-> r.panic]

read_body_by_null_octet(f) ==
  LET found == find_next(f, NUL)
  IN  IF found = None
      THEN [fb |-> f, res |-> None, panic |-> NoPanic]
      ELSE LET r == read_into_vec(f, found[1] + 1)
           IN  [fb |-> r.fb, res |-> Some(SubSeq(r.val, 1, Len(r.val) - 1)),
                panic |-> r.panic]

read_body(f) ==
  LET content_length == get_content_length(f.headers)
      maybe_body == IF content_length # None
                    THEN read_body_by_content_length(f, content_length[1])
                    ELSE read_body_by_null_octet(f)
  IN  IF maybe_body.res # None
      THEN [fb |-> maybe_body.fb, res |-> [kind |-> "Body", body |-> maybe_body.res[1]],
            panic |-> maybe_body.panic]
      ELSE [fb |-> maybe_body.fb, res |-> [kind |-> "Incomplete"],
            panic |-> maybe_body.panic]

(* What read_transmission hands back: Option<Transmission>, or a panic.    *)
RetNone             == [kind |-> "None"]
RetHeartBeat        == [kind |-> "HeartBeat"]
RetFrame(frame)     == [kind |-> "CompleteFrame", frame |-> frame]
RetPanic(message)   == [kind |-> "Panic", message |-> message]
RetUnit             == [kind |-> "Unit"]

(* Faulty variant: reset_parse_state on the Incomplete path as well.       *)
resume_parsing_at_body_ResetsOnIncomplete(f) ==
  LET r == read_body(f)
  IN  IF r.panic # NoPanic THEN [fb |-> r.fb, ret |-> RetPanic(r.panic)]
      ELSE IF r.res.kind = "Body"
      THEN IF r.fb.command = None
           THEN [fb |-> r.fb, ret |-> RetPanic("No COMMAND found.")]
           ELSE [fb  |-> reset_parse_state(
                           [r.fb EXCEPT !.command = None, !.headers = <<>>]),
                 ret |-> RetFrame([command |-> r.fb.command[1],
                                   headers |-> r.fb.headers,
                                   body    |-> r.res.body])]
      ELSE [fb |-> reset_parse_state(r.fb), ret |-> RetNone]

resume_parsing_at_body(f) ==
  LET r == read_body(f)
  IN  IF r.panic # NoPanic THEN [fb |-> r.fb, ret |-> RetPanic(r.panic)]
      ELSE IF r.res.kind = "Body"
      THEN IF r.fb.command = None
           THEN [fb |-> r.fb, ret |-> RetPanic("No COMMAND found.")]
           ELSE [fb  |-> reset_parse_state(
                           [r.fb EXCEPT !.command = None, !.headers = <<>>]),
                 ret |-> RetFrame([command |-> r.fb.command[1],
                                   headers |-> r.fb.headers,
                                   body    |-> r.res.body])]
      ELSE [fb |-> r.fb, ret |-> RetNone]

RECURSIVE resume_parsing_at_headers(_)
(* Faulty variant: the call returns at the end of the headers instead of   *)
(* going on to the body.                                                   *)
resume_parsing_at_headers_StopsAtBody(f) ==
  LET r == read_header(f)
  IN  IF r.panic # NoPanic THEN [fb |-> r.fb, ret |-> RetPanic(r.panic)]
      ELSE CASE r.res.kind = "Header" ->
                  resume_parsing_at_headers(
                    [r.fb EXCEPT !.headers = Append(@, r.res.header)])
             [] r.res.kind = "EndOfHeaders" ->
                  [fb |-> [r.fb EXCEPT !.section = "Body"], ret |-> RetNone]
             [] OTHER -> [fb |-> r.fb, ret |-> RetNone]

(* Faulty variant: an incomplete header line throws the accumulated        *)
(* headers away.                                                           *)
resume_parsing_at_headers_DropsOnIncomplete(f) ==
  LET r == read_header(f)
  IN  IF r.panic # NoPanic THEN [fb |-> r.fb, ret |-> RetPanic(r.panic)]
      ELSE CASE r.res.kind = "Header" ->
                  resume_parsing_at_headers(
                    [r.fb EXCEPT !.headers = Append(@, r.res.header)])
             [] r.res.kind = "EndOfHeaders" ->
                  resume_parsing_at_body([r.fb EXCEPT !.section = "Body"])
             [] OTHER -> [fb |-> [r.fb EXCEPT !.headers = <<>>], ret |-> RetNone]

(* Faulty variant: a blank line before any header is reported as a         *)
(* heartbeat.                                                              *)
resume_parsing_at_headers_HeartBeatOnEmpty(f) ==
  LET r == read_header(f)
  IN  IF r.panic # NoPanic THEN [fb |-> r.fb, ret |-> RetPanic(r.panic)]
      ELSE CASE r.res.kind = "Header" ->
                  resume_parsing_at_headers(
                    [r.fb EXCEPT !.headers = Append(@, r.res.header)])
             [] r.res.kind = "EndOfHeaders" ->
                  IF r.fb.headers = <<>>
                  THEN [fb |-> r.fb, ret |-> RetHeartBeat]
                  ELSE resume_parsing_at_body([r.fb EXCEPT !.section = "Body"])
             [] OTHER -> [fb |-> r.fb, ret |-> RetNone]

resume_parsing_at_headers(f) ==
  LET r == read_header(f)
  IN  IF r.panic # NoPanic THEN [fb |-> r.fb, ret |-> RetPanic(r.panic)]
      ELSE CASE r.res.kind = "Header" ->
                  resume_parsing_at_headers(
                    [r.fb EXCEPT !.headers = Append(@, r.res.header)])
             [] r.res.kind = "EndOfHeaders" ->
                  resume_parsing_at_body([r.fb EXCEPT !.section = "Body"])
             [] OTHER -> [fb |-> r.fb, ret |-> RetNone]

(* Faulty variant: the command is stored but the section is not advanced.  *)
(* Faulty variant: the section is advanced but the command is not stored.  *)
resume_parsing_at_command_DropsCommand(f) ==
  LET r == read_command(f)
  IN  IF r.panic # NoPanic THEN [fb |-> r.fb, ret |-> RetPanic(r.panic)]
      ELSE CASE r.res.kind = "HeartBeat" -> [fb |-> r.fb, ret |-> RetHeartBeat]
             [] r.res.kind = "Command" ->
                  resume_parsing_at_headers([r.fb EXCEPT !.section = "Headers"])
             [] OTHER -> [fb |-> r.fb, ret |-> RetNone]

resume_parsing_at_command_KeepsSection(f) ==
  LET r == read_command(f)
  IN  IF r.panic # NoPanic THEN [fb |-> r.fb, ret |-> RetPanic(r.panic)]
      ELSE CASE r.res.kind = "HeartBeat" -> [fb |-> r.fb, ret |-> RetHeartBeat]
             [] r.res.kind = "Command" ->
                  resume_parsing_at_headers(
                    [r.fb EXCEPT !.command = Some(r.res.command)])
             [] OTHER -> [fb |-> r.fb, ret |-> RetNone]

resume_parsing_at_command(f) ==
  LET r == read_command(f)
  IN  IF r.panic # NoPanic THEN [fb |-> r.fb, ret |-> RetPanic(r.panic)]
      ELSE CASE r.res.kind = "HeartBeat" -> [fb |-> r.fb, ret |-> RetHeartBeat]
             [] r.res.kind = "Command" ->
                  resume_parsing_at_headers(
                    [r.fb EXCEPT !.command = Some(r.res.command),
                                 !.section = "Headers"])
             [] OTHER -> [fb |-> r.fb, ret |-> RetNone]

read_transmission(f) ==
  CASE f.section = "Command" -> resume_parsing_at_command(f)
    [] f.section = "Headers" -> resume_parsing_at_headers(f)
    [] f.section = "Body"    -> resume_parsing_at_body(f)

(* Faulty variant: recycling also resets the FrameBuffer.                  *)
recycle_frame_Resets(f, frame) ==
  reset([f EXCEPT !.string_pool = Pool_attach(@, frame.command)])

(* The command string goes back to the string pool; the headers go to the  *)
(* header codec, whose own pool is not part of this model.                 *)
recycle_frame(f, frame) ==
  [f EXCEPT !.string_pool = Pool_attach(@, frame.command)]

---------------------------------------------------------------------------
(* The caller's side.  Bytes arrive in chunks: a single byte of Alphabet,  *)
(* or a whole header line of HeaderLines.                                  *)
Alphabet == {LF, CR, NUL, 65, 255}

ContentLengthLine(n) == ContentLengthKey \o <<COLON, 48 + n, LF>>

HeaderLines ==
  {<<65, COLON, 65, LF>>} \cup {ContentLengthLine(n) : n \in 0..(MaxBuf - 1)}

Chunks == {<<b>> : b \in Alphabet} \cup HeaderLines

(* A second FrameBuffer given the same calls; one that panicked is dead.   *)
Driven(f) == [fb |-> f, ret |-> RetUnit]

DrivenAppend(s, bytes) ==
  IF s.ret.kind = "Panic" THEN s ELSE Driven(append(s.fb, bytes))

DrivenRead(s) ==
  IF s.ret.kind = "Panic" THEN s ELSE read_transmission(s.fb)

DrivenRecycle(s, frame) ==
  IF s.ret.kind = "Panic" THEN s ELSE Driven(recycle_frame(s.fb, frame))

DrivenReset(s) ==
  IF s.ret.kind = "Panic" THEN s ELSE Driven(reset(s.fb))

Panicked == last.ret.kind = "Panic"

(* The caller has read until None (or has not been given anything yet).    *)
Drained == last.op = "new" \/ (last.op = "read" /\ last.ret.kind = "None")

InitBuffers ==
  /\ fb = new
  /\ last = [op |-> "new", ret |-> RetUnit]
  /\ pre = new
  /\ unpooled = Driven(with_pool(0, 0))

AppendStep(bytes) ==
  /\ fb' = append(fb, bytes)
  /\ last' = [op |-> "append", ret |-> RetUnit]
  /\ pre' = fb
  /\ unpooled' = DrivenAppend(unpooled, bytes)

ReadStep ==
  LET r == read_transmission(fb)
  IN  /\ fb' = r.fb
      /\ last' = [op |-> "read", ret |-> r.ret]
      /\ pre' = fb
      /\ unpooled' = DrivenRead(unpooled)

(* append(bytes): any byte at any time; a Content-Length line where a      *)
(* header line can start.                                                  *)
AppendBytes ==
  /\ ~Panicked
  /\ Len(fb.buffer) < MaxBuf
  /\ Len(fb.headers) <= MaxHeaders
  /\ \E bytes \in Chunks :
       /\ Len(bytes) > 1 => fb.section = "Headers" /\ fb.buffer = <<>>
       /\ AppendStep(bytes)
  /\ UNCHANGED <<input, tape, out>>

(* read_transmission().                                                    *)
ReadTransmission ==
  /\ ~Panicked
  /\ ReadStep
  /\ UNCHANGED <<input, tape, out>>

(* reset().                                                                *)
Reset ==
  /\ ~Panicked
  /\ fb' = reset(fb)
  /\ last' = [op |-> "reset", ret |-> RetUnit]
  /\ pre' = fb
  /\ unpooled' = DrivenReset(unpooled)
  /\ UNCHANGED <<input, tape, out>>

(* recycle_frame(frame): the caller gives back the frame it just received  *)
(* (a frame is owned by one caller and can be given back once).            *)
RecycleFrame ==
  /\ last.op = "read"
  /\ last.ret.kind = "CompleteFrame"
  /\ fb' = recycle_frame(fb, last.ret.frame)
  /\ last' = [op |-> "recycle", ret |-> RetUnit]
  /\ pre' = fb
  /\ unpooled' = DrivenRecycle(unpooled, last.ret.frame)
  /\ UNCHANGED <<input, tape, out>>

Init ==
  /\ InitBuffers
  /\ input = <<>>
  /\ tape = <<>>
  /\ out = [emitted |-> <<>>, split |-> FALSE]

Next == AppendBytes \/ ReadTransmission \/ Reset \/ RecycleFrame

Spec == Init /\ [][Next]_vars

---------------------------------------------------------------------------
(* A transport that delivers one well-formed byte sequence, cut into       *)
(* chunks anywhere; the caller reads until None after every append.        *)
HeartBeatLF   == <<LF>>
HeartBeatCRLF == <<CR, LF>>
FrameBare     == <<65, CR, LF, CR, LF, 65, NUL>>
FrameHeaders  == <<65, LF, 65, COLON, 65, LF, LF, NUL>>
FrameBinary   ==
  <<65, LF, 65, COLON, 65, LF>> \o ContentLengthLine(3) \o <<LF>>
    \o <<NUL, LF, 255>> \o <<NUL>>

Pieces == {HeartBeatLF, HeartBeatCRLF, FrameBare, FrameHeaders, FrameBinary}

RECURSIVE Concatenations(_)
Concatenations(n) ==
  IF n = 0 THEN {<<>>}
  ELSE LET shorter == Concatenations(n - 1)
       IN  shorter \cup {s \o p : s \in shorter, p \in Pieces}

Inputs == Concatenations(MaxPieces)

(* The transmissions of repeated reads, until None (or a panic).           *)
RECURSIVE ReadAll(_)
ReadAll(f) ==
  LET r == read_transmission(f)
  IN  CASE r.ret.kind = "None"  -> <<>>
        [] r.ret.kind = "Panic" -> <<r.ret>>
        [] OTHER                -> <<r.ret>> \o ReadAll(r.fb)

(* split: some chunk began in the middle of a transmission.                *)
Deliver ==
  /\ ~Panicked
  /\ Drained
  /\ tape # <<>>
  /\ \E n \in 1..Len(tape) :
       /\ AppendStep(SubSeq(tape, 1, n))
       /\ tape' = SubSeq(tape, n + 1, Len(tape))
  /\ out' = [out EXCEPT !.split = @ \/ fb.buffer # <<>> \/ fb.section # "Command"]
  /\ UNCHANGED input

Drain ==
  /\ ~Panicked
  /\ ~Drained
  /\ ReadStep
  /\ out' = [out EXCEPT !.emitted =
                IF last'.ret.kind = "None" THEN @ ELSE @ \o <<last'.ret>>]
  /\ UNCHANGED <<input, tape>>

InitDelivery ==
  /\ InitBuffers
  /\ input \in Inputs
  /\ tape = input
  /\ out = [emitted |-> <<>>, split |-> FALSE]

NextDelivery == Deliver \/ Drain

SpecReassembly == InitDelivery /\ [][NextDelivery]_vars

---------------------------------------------------------------------------
(* The first line of a queue: the bytes through the first LF.              *)
HasLine(buffer)       == IndexOf(buffer, LF) # 0
FirstLine(buffer)     == SubSeq(buffer, 1, IndexOf(buffer, LF))
AfterFirstLine(buffer) == SubSeq(buffer, IndexOf(buffer, LF) + 1, Len(buffer))

SameParseState(f, g) ==
  /\ f.section = g.section
  /\ f.command = g.command
  /\ f.headers = g.headers

(* C1: reassembly independence. Once a well-formed input has been          *)
(* delivered in chunks, with reads until None after each append, the       *)
(* emitted transmissions are those of one append of the whole input        *)
(* followed by reads until None; no read panics on the way.                *)
C1_ReassemblyIndependence ==
  /\ ~Panicked
  /\ (tape = <<>> /\ Drained) => out.emitted = ReadAll(append(new, input))

(* An input of several transmissions, delivered with a chunk boundary      *)
(* inside a transmission, has been read to its end.                        *)
C1_Witness ==
  /\ tape = <<>>
  /\ Drained
  /\ out.split
  /\ Len(out.emitted) >= 2
  /\ \E i \in 1..Len(out.emitted) :
       /\ out.emitted[i].kind = "CompleteFrame"
       /\ out.emitted[i].frame.headers # <<>>

(* C2: after reset() the FrameBuffer is empty and answers every following  *)
(* append and reads as a newly constructed FrameBuffer does.               *)
C2_ResetLikeNew ==
  last.op = "reset" =>
    /\ len(fb) = 0
    /\ \A probe \in Pieces :
         ReadAll(append(fb, probe)) = ReadAll(append(new, probe))

(* C3: a read in the Headers phase that takes a non-empty line the codec   *)
(* cannot decode returns a protocol-violation error, with the line removed *)
(* from the queue.                                                         *)
C3_MalformedHeaderIsAnError ==
  ( /\ last.op = "read"
    /\ pre.section = "Headers"
    /\ HasLine(pre.buffer)
    /\ IsUtf8(FirstLine(pre.buffer))
    /\ chomp(FirstLine(pre.buffer)) # <<>>
    /\ HeaderCodec_decode(chomp(FirstLine(pre.buffer))) = None )
  => /\ last.ret.kind = "ProtocolViolation"
     /\ fb.buffer = AfterFirstLine(pre.buffer)

(* C4: a read that begins in the Body phase with Content-Length L returns  *)
(* None and consumes nothing while fewer than L + 1 bytes are queued;      *)
(* otherwise it consumes exactly L + 1 bytes and the body of the frame is  *)
(* the first L of them, whatever their values.                             *)
C4_ContentLengthExact ==
  ( /\ last.op = "read"
    /\ pre.section = "Body"
    /\ get_content_length(pre.headers) # None )
  => LET L == get_content_length(pre.headers)[1]
     IN  IF Len(pre.buffer) < L + 1
         THEN /\ last.ret = RetNone
              /\ fb.buffer = pre.buffer
              /\ SameParseState(fb, pre)
         ELSE /\ last.ret.kind = "CompleteFrame"
              /\ last.ret.frame.body = [i \in 1..L |-> pre.buffer[i]]
              /\ fb.buffer = [i \in 1..(Len(pre.buffer) - L - 1) |->
                                pre.buffer[i + L + 1]]

(* A one-byte body that is the NUL byte itself has been emitted.           *)
C4_Witness ==
  /\ last.op = "read"
  /\ pre.section = "Body"
  /\ get_content_length(pre.headers) = Some(1)
  /\ last.ret.kind = "CompleteFrame"
  /\ last.ret.frame.body = <<NUL>>

(* C5: a read that begins in the Body phase with no Content-Length returns *)
(* None and consumes nothing while no NUL is queued; otherwise it consumes *)
(* through the first NUL, the body is the bytes before it, and every byte  *)
(* after it stays queued.                                                  *)
C5_NullDelimited ==
  ( /\ last.op = "read"
    /\ pre.section = "Body"
    /\ get_content_length(pre.headers) = None )
  => IF \A k \in 1..Len(pre.buffer) : pre.buffer[k] # NUL
     THEN /\ last.ret = RetNone
          /\ fb.buffer = pre.buffer
          /\ SameParseState(fb, pre)
     ELSE \E i \in 1..Len(pre.buffer) :
            /\ pre.buffer[i] = NUL
            /\ \A j \in 1..(i - 1) : pre.buffer[j] # NUL
            /\ last.ret.kind = "CompleteFrame"
            /\ last.ret.frame.body = [j \in 1..(i - 1) |-> pre.buffer[j]]
            /\ fb.buffer = [j \in 1..(Len(pre.buffer) - i) |-> pre.buffer[j + i]]

(* A NUL-delimited body has been emitted and a byte after the NUL is left. *)
C5_Witness ==
  /\ last.op = "read"
  /\ pre.section = "Body"
  /\ get_content_length(pre.headers) = None
  /\ last.ret.kind = "CompleteFrame"
  /\ fb.buffer # <<>>

(* C6: a read in the Command phase whose first line is empty after         *)
(* chomping returns HeartBeat, consumes exactly that line, and leaves      *)
(* phase = Command, no stored command and no headers.                      *)
C6_HeartbeatIsolation ==
  ( /\ last.op = "read"
    /\ pre.section = "Command"
    /\ HasLine(pre.buffer)
    /\ chomp(FirstLine(pre.buffer)) = <<>> )
  => /\ last.ret = RetHeartBeat
     /\ fb.buffer = AfterFirstLine(pre.buffer)
     /\ fb.section = "Command"
     /\ fb.command = None
     /\ fb.headers = <<>>

(* C7: in the Command phase there is no stored command and the header      *)
(* accumulator is empty.                                                   *)
C7_CommandPhaseClean ==
  fb.section = "Command" => fb.command = None /\ fb.headers = <<>>

(* C8: after a read that returned None, a further read with no append in   *)
(* between returns None and leaves queue, phase, command and headers as    *)
(* they are.                                                               *)
C8_IdempotentNone ==
  (last.op = "read" /\ last.ret = RetNone)
  => LET again == read_transmission(fb)
     IN  /\ again.ret = RetNone
         /\ again.fb.buffer = fb.buffer
         /\ SameParseState(again.fb, fb)

(* A read returned None in the middle of the headers, bytes still queued.  *)
C8_Witness ==
  /\ last.op = "read"
  /\ last.ret = RetNone
  /\ fb.section = "Headers"
  /\ fb.headers # <<>>
  /\ fb.buffer # <<>>

(* C9: a read that takes a command line or header line that is not valid   *)
(* UTF-8 returns a protocol-violation error; it does not panic.            *)
C9_NonUtf8IsAnError ==
  ( /\ last.op = "read"
    /\ pre.section \in {"Command", "Headers"}
    /\ HasLine(pre.buffer)
    /\ ~IsUtf8(FirstLine(pre.buffer)) )
  => last.ret.kind = "ProtocolViolation"

C11_CommandPresent ==
  /\ fb.section \in {"Headers", "Body"} => fb.command # None
  /\ last.ret # RetPanic("No COMMAND found.")
  /\ unpooled.ret # RetPanic("No COMMAND found.")

(* A frame completed from the Body phase: the unwrap of the stored         *)
(* command at frame_buffer.rs:137 has run.                                 *)
C11_Witness ==
  /\ last.op = "read"
  /\ pre.section = "Body"
  /\ pre.command # None
  /\ last.ret.kind = "CompleteFrame"
  /\ last.ret.frame.command = pre.command[1]

(* C12: the parser never takes more bytes than are queued. read_into_vec   *)
(* panics exactly when it is called with n > len(), so no call of          *)
(* read_transmission ends in that panic, and every call leaves in the      *)
(* queue the bytes it did not take.                                        *)
C12_NeverReadsBeyondEnd ==
  /\ last.ret # RetPanic("Attempted to read beyond the end of the buffer!")
  /\ unpooled.ret # RetPanic("Attempted to read beyond the end of the buffer!")
  /\ last.op = "read" => Len(fb.buffer) <= Len(pre.buffer)

(* A Content-Length body was asked for while fewer than Content-Length + 1 *)
(* bytes were queued: the length check at frame_buffer.rs:257 has stopped  *)
(* the read.                                                               *)
C12_Witness ==
  /\ last.op = "read"
  /\ pre.section = "Body"
  /\ get_content_length(pre.headers) # None
  /\ pre.buffer # <<>>
  /\ Len(pre.buffer) < get_content_length(pre.headers)[1] + 1
  /\ last.ret = RetNone

(* The transmission each piece of a well-formed input stands for, written  *)
(* out by hand from the STOMP frame layout.                                *)
TransmissionOf(piece) ==
  CASE piece = HeartBeatLF   -> RetHeartBeat
    [] piece = HeartBeatCRLF -> RetHeartBeat
    [] piece = FrameBare ->
         RetFrame([command |-> <<65>>, headers |-> <<>>, body |-> <<65>>])
    [] piece = FrameHeaders ->
         RetFrame([command |-> <<65>>,
                   headers |-> <<[key |-> <<65>>, value |-> <<65>>]>>,
                   body    |-> <<>>])
    [] piece = FrameBinary ->
         RetFrame([command |-> <<65>>,
                   headers |-> <<[key |-> <<65>>, value |-> <<65>>],
                                 [key |-> ContentLengthKey, value |-> <<51>>]>>,
                   body    |-> <<NUL, LF, 255>>])

IsPrefix(s, t) == Len(s) <= Len(t) /\ SubSeq(t, 1, Len(s)) = s

DropFirst(s, n) == SubSeq(s, n + 1, Len(s))

(* C13: maximal progress in one call. A read that begins in the Command    *)
(* phase with no stored command and no headers, on a queue that begins     *)
(* with one complete transmission, returns that transmission from this one *)
(* call, takes exactly its bytes, and leaves the bytes behind it queued in *)
(* order with the parser back in a clean Command phase.                    *)
C13_MaximalProgress ==
  ( /\ last.op = "read"
    /\ pre.section = "Command"
    /\ pre.command = None
    /\ pre.headers = <<>> )
  => \A piece \in Pieces :
       IsPrefix(piece, pre.buffer)
       => /\ last.ret = TransmissionOf(piece)
          /\ fb.buffer = DropFirst(pre.buffer, Len(piece))
          /\ len(fb) = Len(pre.buffer) - Len(piece)
          /\ fb.section = "Command"
          /\ fb.command = None
          /\ fb.headers = <<>>

(* A whole frame with two headers and a Content-Length body, delivered in  *)
(* one append together with the transmission behind it.                    *)
C13_Witness ==
  /\ last.op = "read"
  /\ pre.section = "Command"
  /\ IsPrefix(FrameBinary, pre.buffer)
  /\ Len(pre.buffer) > Len(FrameBinary)
  /\ last.ret = TransmissionOf(FrameBinary)
  /\ fb.buffer # <<>>

NumLF(bytes) == Cardinality({i \in 1..Len(bytes) : bytes[i] = LF})

(* C14: incomplete reads never lose partial progress. A read that returns  *)
(* None keeps the stored command, keeps the accumulated headers as a       *)
(* prefix of the accumulator, and has stored one command or header (or     *)
(* passed the blank line) for every line it took from the queue; append    *)
(* leaves the parse state alone; and a read that completes a frame begun   *)
(* earlier emits it with the stored command and with the accumulated       *)
(* headers as a prefix of its header list.                                 *)
C14_PartialProgressKept ==
  /\ last.op = "append" => SameParseState(fb, pre)
  /\ (last.op = "read" /\ last.ret = RetNone)
     => /\ IsPrefix(pre.headers, fb.headers)
        /\ pre.section # "Command"
           => fb.command = pre.command /\ fb.section # "Command"
        /\ (pre.section = "Command" /\ fb.section # "Command")
           => fb.command = Some(chomp(FirstLine(pre.buffer)))
        /\ NumLF(pre.buffer) - NumLF(fb.buffer)
             = (IF pre.section = "Command" /\ fb.section # "Command" THEN 1 ELSE 0)
               + (Len(fb.headers) - Len(pre.headers))
               + (IF pre.section # "Body" /\ fb.section = "Body" THEN 1 ELSE 0)
  /\ ( /\ last.op = "read"
       /\ last.ret.kind = "CompleteFrame"
       /\ pre.section # "Command" )
     => /\ last.ret.frame.command = pre.command[1]
        /\ IsPrefix(pre.headers, last.ret.frame.headers)

(* A frame whose command and first header were stored by an earlier read   *)
(* that returned None, and whose second header is parsed by the read that  *)
(* completes it.                                                           *)
C14_Witness ==
  /\ last.op = "read"
  /\ pre.section = "Headers"
  /\ pre.command = Some(<<65>>)
  /\ Len(pre.headers) = 1
  /\ last.ret = TransmissionOf(FrameBinary)

---------------------------------------------------------------------------
(* The same transport, over a connection that can be torn down in the      *)
(* middle of its first frame: the caller calls reset() and the peer sends  *)
(* its input again from the start.                                         *)
Reconnect ==
  /\ ~Panicked
  /\ fb.section # "Command"
  /\ out.emitted = <<>>
  /\ Len(fb.headers) <= MaxHeaders
  /\ fb' = reset(fb)
  /\ last' = [op |-> "reset", ret |-> RetUnit]
  /\ pre' = fb
  /\ unpooled' = DrivenReset(unpooled)
  /\ tape' = input
  /\ out' = [emitted |-> <<>>, split |-> FALSE]
  /\ UNCHANGED input

NextReconnect == Deliver \/ Drain \/ Reconnect

SpecReconnect == InitDelivery /\ [][NextReconnect]_vars

FramePieces == {FrameBare, FrameHeaders, FrameBinary}

(* C15: header order and body framing. The header list of an emitted frame *)
(* is exactly the decoded header lines between its command line and its    *)
(* blank line, in wire order, and its body is the one the first            *)
(* Content-Length header (or, without one, the first NUL) delimits: for a  *)
(* frame read whole from the queue, the headers and the body are the ones  *)
(* written out in TransmissionOf.                                          *)
C15_HeadersAsOnWire ==
  ( /\ last.op = "read"
    /\ pre.section = "Command"
    /\ last.ret.kind = "CompleteFrame" )
  => \A piece \in FramePieces :
       IsPrefix(piece, pre.buffer)
       => /\ last.ret.frame.headers = TransmissionOf(piece).frame.headers
          /\ last.ret.frame.body = TransmissionOf(piece).frame.body

(* The bytes appended since construction or the last reset.                *)
Delivered == SubSeq(input, 1, Len(input) - Len(tape))

IsSuffix(s, t) == Len(s) <= Len(t) /\ SubSeq(t, Len(t) - Len(s) + 1, Len(t)) = s

(* One call, seen from the state before it and the state after it.         *)
C16_Step ==
  /\ IsSuffix(fb.buffer, Delivered)
  /\ IsSuffix(fb'.buffer, Delivered')
  /\ last'.op = "append"
     => LET bs == SubSeq(tape, 1, Len(tape) - Len(tape'))
        IN  /\ fb'.buffer = fb.buffer \o bs
            /\ len(fb') = len(fb) + Len(bs)
  /\ last'.op = "read"
     => /\ IsSuffix(fb'.buffer, fb.buffer)
        /\ len(fb') <= len(fb)
  /\ last'.op = "reset" => fb'.buffer = <<>> /\ Delivered' = <<>>

(* C16: FIFO byte conservation. At every point the queue is what is left   *)
(* of the bytes appended since construction or the last reset once the     *)
(* consumed bytes are taken off their front; append(bs) puts bs behind the *)
(* queue and lengthens it by Len(bs); read_transmission only takes bytes   *)
(* off the front: it never lengthens the queue, reorders it or puts bytes  *)
(* back.                                                                   *)
C16_ByteConservation == [][C16_Step]_vars

(* A read has taken a transmission off the front of a queue that held more *)
(* than that transmission, while part of the input is still to come.       *)
C16_Witness ==
  /\ last.op = "read"
  /\ last.ret.kind = "CompleteFrame"
  /\ fb.buffer # <<>>
  /\ IsSuffix(fb.buffer, pre.buffer)
  /\ tape # <<>>

(* The body of the frame in progress is not all queued yet.                *)
BodyIncomplete(f) ==
  IF get_content_length(f.headers) # None
  THEN Len(f.buffer) < get_content_length(f.headers)[1] + 1
  ELSE IndexOf(f.buffer, NUL) = 0

(* C17: no effect when nothing can be parsed. A read made in the Command   *)
(* phase while no LF is queued, or in the Body phase while the body is not *)
(* complete, returns None and leaves the queue, the phase, the stored      *)
(* command and the header accumulator as they were.                        *)
C17_NoEffectWhenIncomplete ==
  ( /\ last.op = "read"
    /\ \/ pre.section = "Command" /\ ~HasLine(pre.buffer)
       \/ pre.section = "Body" /\ BodyIncomplete(pre) )
  => /\ last.ret = RetNone
     /\ fb.buffer = pre.buffer
     /\ fb.section = pre.section
     /\ fb.command = pre.command
     /\ fb.headers = pre.headers

(* A read in the Command phase on a queue that holds bytes but no LF.      *)
C17_Witness ==
  /\ last.op = "read"
  /\ pre.section = "Command"
  /\ pre.buffer # <<>>
  /\ ~HasLine(pre.buffer)
  /\ last.ret = RetNone
  /\ fb.buffer = pre.buffer

(* Some line of the bytes is empty once its line ending is taken off.      *)
HasEmptyLine(bytes) ==
  \E i \in 1..Len(bytes) :
    /\ bytes[i] = LF
    /\ \E j \in 1..i :
         /\ j = 1 \/ bytes[j - 1] = LF
         /\ \A k \in j..(i - 1) : bytes[k] = CR

(* C18: phase ordering. A read leaves the Command phase only by taking a   *)
(* non-empty command line, reaches the Body phase only past an empty       *)
(* line, never goes back from Body to Headers, and comes back to the       *)
(* Command phase only in the call that emits the CompleteFrame. HeartBeat  *)
(* comes only from a call that starts in the Command phase on an empty     *)
(* line; an empty line met in the Headers phase ends the headers.          *)
C18_PhaseOrdering ==
  last.op = "read"
  => /\ (pre.section = "Command" /\ fb.section # "Command")
        => HasLine(pre.buffer) /\ chomp(FirstLine(pre.buffer)) # <<>>
     /\ (pre.section = "Command" /\ fb.section = "Body")
        => HasEmptyLine(AfterFirstLine(pre.buffer))
     /\ (pre.section = "Headers" /\ fb.section # "Headers")
        => HasEmptyLine(pre.buffer)
     /\ pre.section = "Body" => fb.section # "Headers"
     /\ (pre.section # "Command" /\ fb.section = "Command")
        => last.ret.kind = "CompleteFrame"
     /\ last.ret.kind = "CompleteFrame" => fb.section = "Command"
     /\ last.ret = RetHeartBeat
        => /\ pre.section = "Command"
           /\ fb.section = "Command"
           /\ HasLine(pre.buffer)
           /\ chomp(FirstLine(pre.buffer)) = <<>>
     /\ ( /\ pre.section = "Headers"
          /\ HasLine(pre.buffer)
          /\ chomp(FirstLine(pre.buffer)) = <<>> )
        => /\ last.ret # RetHeartBeat
           /\ fb.section # "Headers"
           /\ fb.section = "Command"
              => /\ last.ret.kind = "CompleteFrame"
                 /\ last.ret.frame.headers = pre.headers

(* A blank line met in the Headers phase before any header: the call ends  *)
(* the headers and emits a frame with zero headers.                        *)
C18_Witness ==
  /\ last.op = "read"
  /\ pre.section = "Headers"
  /\ pre.headers = <<>>
  /\ HasLine(pre.buffer)
  /\ chomp(FirstLine(pre.buffer)) = <<>>
  /\ last.ret.kind = "CompleteFrame"
  /\ last.ret.frame.headers = <<>>

---------------------------------------------------------------------------
(* The loop of resume_parsing_at_headers, iteration by iteration.          *)
(* HeaderLoopEntry: the FrameBuffer with which a call of read_transmission *)
(* enters the loop, if it does.                                            *)
HeaderLoopEntry(f) ==
  CASE f.section = "Headers" -> Some(f)
    [] f.section = "Command" ->
         LET r == read_command(f)
         IN  IF r.panic = NoPanic /\ r.res.kind = "Command"
             THEN Some([r.fb EXCEPT !.command = Some(r.res.command),
                                    !.section = "Headers"])
             ELSE None
    [] OTHER -> None

(* An iteration goes round again exactly on ReadHeaderResult::Header.      *)
GoesRound(r) == r.panic = NoPanic /\ r.res.kind = "Header"

(* The number of times the loop body runs, the returning iteration         *)
(* included.                                                               *)
RECURSIVE header_loop_iterations(_)
header_loop_iterations(f) ==
  LET r == read_header(f)
  IN  IF GoesRound(r)
      THEN 1 + header_loop_iterations(
                 [r.fb EXCEPT !.headers = Append(@, r.res.header)])
      ELSE 1

(* Every iteration that goes round again has taken one line off the queue: *)
(* at least one byte, exactly one LF.                                      *)
RECURSIVE HeaderLoopProgress(_)
HeaderLoopProgress(f) ==
  LET r == read_header(f)
  IN  GoesRound(r)
      => /\ Len(r.fb.buffer) < Len(f.buffer)
         /\ NumLF(r.fb.buffer) = NumLF(f.buffer) - 1
         /\ HeaderLoopProgress([r.fb EXCEPT !.headers = Append(@, r.res.header)])

CallIterations(f) ==
  IF HeaderLoopEntry(f) = None THEN 0
  ELSE header_loop_iterations(HeaderLoopEntry(f)[1])

(* C19, as claimed: in one call of read_transmission the header loop runs  *)
(* at most as many iterations as LF bytes are queued at entry.             *)
C19_IterationsAtMostLF ==
  last.op = "read" => CallIterations(pre) <= NumLF(pre.buffer)

(* C19, amended: every call terminates; each iteration of the header loop  *)
(* either returns or takes one line (at least one byte, exactly one LF)    *)
(* off the queue, so a call runs at most one iteration more than LF bytes  *)
(* are queued at entry, the extra one being the iteration that finds no LF *)
(* and returns; a call that starts in the Command phase runs at most as    *)
(* many iterations as LF bytes are queued.                                 *)
C19_IterationsAtMostLFPlusOne ==
  last.op = "read"
  => /\ HeaderLoopEntry(pre) # None => HeaderLoopProgress(HeaderLoopEntry(pre)[1])
     /\ CallIterations(pre) <= NumLF(pre.buffer) + 1
     /\ pre.section = "Command" => CallIterations(pre) <= NumLF(pre.buffer)

(* A call that starts in the Headers phase on two header lines and the     *)
(* beginning of a third: two iterations take a line, the third returns.    *)
C19_Witness ==
  /\ last.op = "read"
  /\ pre.section = "Headers"
  /\ NumLF(pre.buffer) = 2
  /\ CallIterations(pre) = 3
  /\ last.ret = RetNone
  /\ Len(fb.headers) = Len(pre.headers) + 2

(* C20: the Content-Length terminator is not validated. In the Body phase  *)
(* with Content-Length L and at least L + 1 bytes queued, the read emits   *)
(* the CompleteFrame with the first L bytes as its body whatever the byte  *)
(* at offset L is; that byte is taken and dropped, no error is raised, and *)
(* the parser is in the Command phase on the bytes from offset L + 1 on.   *)
C20_TerminatorNotValidated ==
  ( /\ last.op = "read"
    /\ pre.section = "Body"
    /\ get_content_length(pre.headers) # None
    /\ Len(pre.buffer) >= get_content_length(pre.headers)[1] + 1 )
  => LET L == get_content_length(pre.headers)[1]
     IN  \A terminator \in 0..255 :
           pre.buffer[L + 1] = terminator
           => /\ last.ret = RetFrame([command |-> pre.command[1],
                                      headers |-> pre.headers,
                                      body    |-> SubSeq(pre.buffer, 1, L)])
              /\ fb.buffer = DropFirst(pre.buffer, L + 1)
              /\ fb.section = "Command"

(* A Content-Length frame whose byte after the body is not 0x00 has been   *)
(* emitted.                                                                *)
C20_Witness ==
  /\ last.op = "read"
  /\ pre.section = "Body"
  /\ get_content_length(pre.headers) # None
  /\ Len(pre.buffer) >= get_content_length(pre.headers)[1] + 1
  /\ pre.buffer[get_content_length(pre.headers)[1] + 1] # NUL
  /\ last.ret.kind = "CompleteFrame"
=============================================================================
